---- MODULE Spec2Model ----
(***************************************************************************)
(* State machine of the Flask-SocketIO synchronisation hub of              *)
(* src/flask_server/server.py (interface_server.py is the same hub without *)
(* registry and message log).                                              *)
(*                                                                         *)
(* JSON values are tagged records:                                         *)
(*   Null, Bool(b), Num(n) (n in hundredths: 0.35 is Num(35), 1 is         *)
(*   Num(100)), Str(s) (s a sequence of one-character strings, so that     *)
(*   str.strip and iteration over a str can be computed), List(l), Map(m)  *)
(*   (m a function from key to value), Ts(c) (the isoformat() string of a  *)
(*   clock reading c), Ref(r) (a reference to the list object heap[r]).    *)
(* A Python dict or list that the program shares between two owners and    *)
(* later mutates in place lives in `heap`; the only such objects are the   *)
(* `modules` lists (shared by LATEST_STATE and by the logged `state`).     *)
(***************************************************************************)
EXTENDS Integers, Sequences, FiniteSets, TLC

VARIABLES
    LATEST_STATE,     \* the canonical document (a Map; "modules" may hold a Ref)
    heap,             \* list objects by identity: heap[r] is the list Ref(r) names
    JSON_MESSAGES,    \* deque(maxlen=100) of logged entries
    player_registry,  \* sid -> [playerName, connectedAt]
    connected,        \* sessions the transport holds a live connection for
    clock,            \* readings of datetime.now(), one per handled event
    emitted,          \* the emit calls of the last handler, in order
    last,             \* the last handled event: name, sender, argument, outcome
    synced,           \* history: module index -> the value a user:module_event
                      \* stored there since `modules` was last assigned
    inflight,         \* closed sessions with an event of theirs still waiting
                      \* for its handler (handlers run as background tasks)
    running           \* handlers on concurrent threads: `threads` maps a session
                      \* to the wizard:push_state handler it has in progress
                      \* (the items its loop has yet to merge); history: `base`
                      \* is the document when the first of them began, `batch`
                      \* the partials dispatched since

vars ==
    <<LATEST_STATE, heap, JSON_MESSAGES, player_registry, connected, clock,
      emitted, last, synced, inflight, running>>

\* ---------------------------------------------------------------- bounds
\* the number of events handled in a run
MaxClock == 4

\* the number of events handled in a run that fills the log past its capacity
MaxLogClock == 103

\* the number of handlers that run at the same time
MaxThreads == 2

\* the session identifiers the transport hands out
Sessions == {"s1", "s2", "s3"}

\* ---------------------------------------------------------------- JSON
Null == [t |-> "null"]
Bool(b) == [t |-> "bool", b |-> b]
Num(n) == [t |-> "num", n |-> n]
Str(s) == [t |-> "str", s |-> s]
List(l) == [t |-> "list", l |-> l]
Map(m) == [t |-> "map", m |-> m]
Ts(c) == [t |-> "ts", c |-> c]
Ref(r) == [t |-> "ref", r |-> r]

EmptyMap == Map(<<>>)

isinstance_dict(x) == x.t = "map"
isinstance_list(x) == x.t \in {"list", "ref"}

\* dict.get(k): the value, or None
get(d, k) == IF k \in DOMAIN d.m THEN d.m[k] ELSE Null

\* dict.get(k, default)
get_default(d, k, default) == IF k \in DOMAIN d.m THEN d.m[k] ELSE default

\* d[k] = v
setitem(d, k, v) == Map((k :> v) @@ d.m)

\* a faulty update: the stored map replaced by the incoming one
update_replace(d, v) == v

\* d.update(v)
update(d, v) == Map(v.m @@ d.m)

\* Python truthiness
truthy(x) ==
    CASE x.t = "null" -> FALSE
      [] x.t = "bool" -> x.b
      [] x.t = "num" -> x.n # 0
      [] x.t = "str" -> x.s # <<>>
      [] x.t = "list" -> x.l # <<>>
      [] x.t = "map" -> DOMAIN x.m # {}
      [] OTHER -> TRUE

\* Python ==: True == 1 and False == 0, otherwise structural
py_eq(a, b) ==
    LET asnum(x) == IF x.t = "bool" THEN Num(IF x.b THEN 100 ELSE 0) ELSE x
    IN asnum(a) = asnum(b)

\* items of a function given as pairs <<k, v>> with distinct keys
RECURSIVE FromItems(_)
FromItems(items) ==
    IF items = <<>> THEN <<>>
    ELSE (items[1][1] :> items[1][2]) @@ FromItems(Tail(items))

\* what json.dumps / the packet encoder writes: every reference followed
RECURSIVE Serialize(_, _)
Serialize(x, h) ==
    CASE x.t = "ref" -> List([i \in DOMAIN h[x.r] |-> Serialize(h[x.r][i], h)])
      [] x.t = "list" -> List([i \in DOMAIN x.l |-> Serialize(x.l[i], h)])
      [] x.t = "map" -> Map([k \in DOMAIN x.m |-> Serialize(x.m[k], h)])
      [] OTHER -> x

\* ---------------------------------------------------------------- literals
S_Player == Str(<<"P", "l", "a", "y", "e", "r">>)
S_unknown == Str(<<"u", "n", "k", "n", "o", "w", "n">>)
S_controller == Str(<<"c", "o", "n", "t", "r", "o", "l", "l", "e", "r">>)
S_A1 == Str(<<"A", "1">>)
S_A2 == Str(<<"A", "2">>)
S_A3 == Str(<<"A", "3">>)
S_A4 == Str(<<"A", "4">>)
S_B1 == Str(<<"B", "1">>)
S_B2 == Str(<<"B", "2">>)
S_B3 == Str(<<"B", "3">>)
S_B4 == Str(<<"B", "4">>)
S_trig == Str(<<"t", "r", "i", "g">>)
S_fader == Str(<<"f", "a", "d", "e", "r">>)
S_dial == Str(<<"d", "i", "a", "l">>)
S_meter == Str(<<"m", "e", "t", "e", "r">>)
S_momentary == Str(<<"m", "o", "m", "e", "n", "t", "a", "r", "y">>)
S_toggle == Str(<<"t", "o", "g", "g", "l", "e">>)

\* the event names, as the "type" of a log entry
T_push_state == Str(<<"w", "i", "z", "a", "r", "d", ":", "p", "u", "s", "h", "_", "s", "t", "a", "t", "e">>)
T_update_name == Str(<<"p", "l", "a", "y", "e", "r", ":", "u", "p", "d", "a", "t", "e", "_", "n", "a", "m", "e">>)
T_button_press == Str(<<"p", "l", "a", "y", "e", "r", ":", "b", "u", "t", "t", "o", "n", "_", "p", "r", "e", "s", "s">>)
T_interaction == Str(<<"p", "l", "a", "y", "e", "r", ":", "i", "n", "t", "e", "r", "a", "c", "t", "i", "o", "n">>)
T_module_event == Str(<<"u", "s", "e", "r", ":", "m", "o", "d", "u", "l", "e", "_", "e", "v", "e", "n", "t">>)

\* ---------------------------------------------------------------- defaults
DefaultTheme ==
    Map([bg |-> Str(<<"#", "0", "a", "0", "a", "0", "d">>),
         fg |-> Str(<<"#", "e", "8", "e", "8", "e", "e">>),
         muted |-> Str(<<"#", "8", "d", "8", "d", "9", "8">>),
         accent |-> Str(<<"#", "b", "7", "c", "7", "f", "f">>),
         glow |-> Num(90),
         grain |-> Num(12)])

DefaultSurface ==
    Map([cols |-> Num(400), rows |-> Num(600), theme |-> DefaultTheme,
         tempo |-> Num(35)])

\* the labels are non-ASCII glyphs in the source; they are named here
DefaultModules ==
    << Map([id |-> S_A1, type |-> S_trig, label |-> Str(<<"e", "n", "d">>),
            mode |-> S_momentary, value |-> Num(0), locked |-> Bool(FALSE)]),
       Map([id |-> S_A2, type |-> S_fader, label |-> Str(<<"I">>),
            min |-> Num(0), max |-> Num(100), step |-> Num(1),
            value |-> Num(62), locked |-> Bool(FALSE)]),
       Map([id |-> S_A3, type |-> S_dial, label |-> Str(<<"c", "c", "w">>),
            min |-> Num(0), max |-> Num(100), step |-> Num(2),
            value |-> Num(18), locked |-> Bool(FALSE)]),
       Map([id |-> S_A4, type |-> S_meter, label |-> Str(<<".", ".", ".">>),
            value |-> Num(40)]),
       Map([id |-> S_B1, type |-> S_trig, label |-> Str(<<"-">>),
            mode |-> S_toggle, value |-> Num(100), locked |-> Bool(FALSE)]),
       Map([id |-> S_B2, type |-> S_meter, label |-> Str(<<"~">>),
            value |-> Num(20)]),
       Map([id |-> S_B3, type |-> S_fader, label |-> Str(<<"I", "I">>),
            min |-> Num(0), max |-> Num(100), step |-> Num(1),
            value |-> Num(28), locked |-> Bool(FALSE)]),
       Map([id |-> S_B4, type |-> S_dial, label |-> Str(<<"1", "/", "3">>),
            min |-> Num(0), max |-> Num(100), step |-> Num(2),
            value |-> Num(76), locked |-> Bool(FALSE)]) >>

\* the module list of the default document is the list object 1
DefaultState ==
    Map([v |-> Num(100), surface |-> DefaultSurface, modules |-> Ref(1)])

DefaultDocument == Serialize(DefaultState, <<DefaultModules>>)

\* ---------------------------------------------------------------- log
MAXLEN == 100

\* a faulty append: a deque without maxlen
deque_append_unbounded(q, x) == Append(q, x)

\* deque(maxlen=100).append
deque_append(q, x) ==
    IF Len(q) >= MAXLEN THEN Append(Tail(q), x) ELSE Append(q, x)

\* one emit call: the event, its encoded payload, the sessions it goes to
Emit(event, data, to) == [event |-> event, data |-> data, to |-> to]

\* the handled event, for the properties: `pre` is the document as it was
\* encoded before the handler ran, `raised` whether the handler ended in an
\* uncaught exception, `again` whether the event handled just before was the
\* same message
Handled(op, sid, data, raised) ==
    [op |-> op, sid |-> sid, data |-> data, raised |-> raised,
     pre |-> Serialize(LATEST_STATE, heap),
     again |-> (last.op = op /\ last.data = data)]

\* the transport dispatches an event of session sid to its handler: the
\* connection is live, or it was when the event arrived and has closed since
sender(sid) == sid \in connected \cup inflight

\* ---------------------------------------------------------------- Init
Init ==
    /\ LATEST_STATE = DefaultState
    /\ heap = <<DefaultModules>>
    /\ JSON_MESSAGES = <<>>
    /\ player_registry = <<>>
    /\ connected = {}
    /\ clock = 0
    /\ emitted = <<>>
    /\ last = [op |-> "init", sid |-> "none", data |-> Null, raised |-> FALSE,
               pre |-> DefaultDocument, again |-> FALSE]
    /\ synced = <<>>
    /\ inflight = {}
    /\ running = [threads |-> <<>>, base |-> DefaultState, batch |-> <<>>]

\* ---------------------------------------------------------------- log entry
\* log_json_message(message): the deque after the append
log_json_message(message) == deque_append(JSON_MESSAGES, message)

\* a faulty emit: json_message withheld from one of the sessions
emit_json_message_but_one(message, h) ==
    Emit("json_message", Serialize(message, h),
         IF connected = {} THEN {}
         ELSE connected \ {CHOOSE s \in connected : TRUE})

\* socketio.emit("json_message", message): to every connected session
emit_json_message(message, h) ==
    Emit("json_message", Serialize(message, h), connected)

\* GET /api/messages: jsonify(list(JSON_MESSAGES)), the body of the response
get_json_messages ==
    [i \in DOMAIN JSON_MESSAGES |-> Serialize(JSON_MESSAGES[i], heap)]

\* player_registry.get(request.sid, {"playerName": "Player"}).get("playerName", "Player")
registered_name(sid) ==
    IF sid \in DOMAIN player_registry
    THEN player_registry[sid].playerName
    ELSE S_Player

\* ---------------------------------------------------------------- connect
\* the transport assigns request.sid; the identifiers are interchangeable, so
\* a new connection takes the first one that is free. An identifier is unique
\* among the live connections only: that of a closed one can be handed out
\* again.
new_sid == CHOOSE s \in Sessions \ connected : TRUE

\* a faulty emit: the snapshot broadcast to every session
emit_snapshot_broadcast(sid) ==
    <<Emit("state", Serialize(LATEST_STATE, heap), connected \cup {sid})>>

\* emit("state", LATEST_STATE) inside the handler: to request.sid only
emit_snapshot(sid) == <<Emit("state", Serialize(LATEST_STATE, heap), {sid})>>

on_connect(sid) ==
    /\ sid \notin connected
    /\ sid = new_sid
    /\ player_registry' =
           (sid :> [playerName |-> S_Player, connectedAt |-> Ts(clock)])
               @@ player_registry
    /\ connected' = connected \cup {sid}
    /\ emitted' = emit_snapshot(sid)
    /\ last' = Handled("connect", sid, Null, FALSE)
    /\ clock' = clock + 1
    /\ inflight' = inflight \ {sid}
    /\ UNCHANGED <<LATEST_STATE, heap, JSON_MESSAGES, synced, running>>

\* ---------------------------------------------------------------- disconnect
on_disconnect(sid) ==
    /\ sid \in connected
    /\ player_registry' =
           [s \in DOMAIN player_registry \ {sid} |-> player_registry[s]]
    /\ connected' = connected \ {sid}
    /\ emitted' = <<>>
    /\ last' = Handled("disconnect", sid, Null, FALSE)
    /\ clock' = clock + 1
    /\ inflight' = inflight \cup {sid}
    /\ UNCHANGED <<LATEST_STATE, heap, JSON_MESSAGES, synced, running>>

\* ---------------------------------------------------------------- push_state
\* the merge loop of wizard_push_state over state.items(), from document
\* `doc`; it stops where LATEST_STATE["surface"].update raises
RECURSIVE merge(_, _)
merge(doc, items) ==
    IF items = <<>> THEN [doc |-> doc, raised |-> FALSE]
    ELSE LET k == items[1][1]
             v == items[1][2]
         IN IF k = "modules" /\ isinstance_list(v)
            THEN merge(setitem(doc, "modules", v), Tail(items))
            ELSE IF k = "surface" /\ isinstance_dict(v)
            THEN IF isinstance_dict(doc.m["surface"])
                 THEN merge(setitem(doc, "surface", update(doc.m["surface"], v)),
                            Tail(items))
                 ELSE [doc |-> doc, raised |-> TRUE]
            ELSE merge(setitem(doc, k, v), Tail(items))

\* the parsed `state` as the handler holds it: a list under "modules" is the
\* list object `r`
RECURSIVE by_reference(_, _)
by_reference(items, r) ==
    IF items = <<>> THEN <<>>
    ELSE LET k == items[1][1]
             v == items[1][2]
         IN <<IF k = "modules" /\ v.t = "list" THEN <<k, Ref(r)>> ELSE <<k, v>>>>
                \o by_reference(Tail(items), r)

has_modules_list(items) ==
    \E i \in DOMAIN items : items[i][1] = "modules" /\ items[i][2].t = "list"

modules_list(items) ==
    items[CHOOSE i \in DOMAIN items : items[i][1] = "modules"][2].l

\* a faulty store: the list of the message added to the stored list
parsed_list_extend(h, items) ==
    Append(h, (IF LATEST_STATE.m["modules"].t = "ref"
               THEN h[LATEST_STATE.m["modules"].r] ELSE <<>>)
                  \o modules_list(items))

\* the list object that state["modules"] is, which LATEST_STATE["modules"] = v
\* stores as it is
parsed_list(h, items) == Append(h, modules_list(items))

\* a faulty test: any `state` that is given passes
state_is_given(data) == truthy(data) /\ get(data, "state") # Null

\* state = (data or {}).get("state"); isinstance(state, dict), for a `data`
\* that has .get
state_is_dict(data) == truthy(data) /\ isinstance_dict(get(data, "state"))

\* `data` is the event's argument; `items` is state.items() in the order of
\* the message when data["state"] is a dict
wizard_push_state(sid, data, items) ==
    /\ sender(sid)
    /\ clock' = clock + 1
    /\ inflight' = inflight \ {sid}
    /\ UNCHANGED running
    /\ UNCHANGED <<player_registry, connected>>
    /\ IF truthy(data) /\ ~isinstance_dict(data)
       THEN \* (data or {}).get: AttributeError
            /\ last' = Handled("wizard:push_state", sid, data, TRUE)
            /\ emitted' = <<>>
            /\ UNCHANGED <<LATEST_STATE, heap, JSON_MESSAGES, synced>>
       ELSE IF ~state_is_dict(data)
       THEN \* not isinstance(state, dict): return
            /\ last' = Handled("wizard:push_state", sid, data, FALSE)
            /\ emitted' = <<>>
            /\ UNCHANGED <<LATEST_STATE, heap, JSON_MESSAGES, synced>>
       ELSE LET r == Len(heap) + 1
                heap1 == IF has_modules_list(items)
                         THEN parsed_list(heap, items)
                         ELSE heap
                held == by_reference(items, r)
                entry == Map([type |-> T_push_state,
                              state |-> Map(FromItems(held)),
                              timestamp |-> Ts(clock)])
                merged == merge(LATEST_STATE, held)
                doc == merged.doc
            IN /\ JSON_MESSAGES' = log_json_message(entry)
               /\ heap' = heap1
               /\ LATEST_STATE' = doc
               /\ synced' = IF doc.m["modules"] = LATEST_STATE.m["modules"]
                             THEN synced ELSE <<>>
               /\ last' = Handled("wizard:push_state", sid, data, merged.raised)
               /\ emitted' =
                      <<emit_json_message(entry, heap1)>>
                      \o IF merged.raised THEN <<>>
                         ELSE <<Emit("state", Serialize(doc, heap1),
                                     connected \ {sid})>>

\* ---------------------------------------------------------------- module_event
\* what `for m in x` iterates over, or that x is not iterable
iterable(x) == x.t \in {"ref", "list", "str", "map"}

elements(x, h) ==
    CASE x.t = "ref" -> h[x.r]
      [] x.t = "list" -> x.l
      [] x.t = "str" -> [i \in DOMAIN x.s |-> Str(<<x.s[i]>>)]
      [] x.t = "map" -> [i \in 1..Cardinality(DOMAIN x.m) |-> Str(<<"k">>)]
      [] OTHER -> <<>>

\* the loop `for m in modules: if m.get("id") == mid and "value" in m and
\* value is not None: m["value"] = value; break`, from element i on: the index
\* of the module it updates (0: none), and whether m.get raised on the way
RECURSIVE scan_modules(_, _, _, _)
scan_modules(ms, i, mid, value) ==
    IF i > Len(ms) THEN [idx |-> 0, raised |-> FALSE]
    ELSE IF ~isinstance_dict(ms[i]) THEN [idx |-> 0, raised |-> TRUE]
    ELSE IF /\ py_eq(get(ms[i], "id"), mid)
            /\ "value" \in DOMAIN ms[i].m
            /\ value # Null
    THEN [idx |-> i, raised |-> FALSE]
    ELSE scan_modules(ms, i + 1, mid, value)

\* a faulty store: the value set on a copy of the module, the list untouched
set_value_copy(h, r, idx, value) == h

\* m["value"] = value, m the element idx of the list object r
set_value(h, r, idx, value) ==
    [h EXCEPT ![r][idx] = setitem(@, "value", value)]

user_module_event(sid, data) ==
    /\ sender(sid)
    /\ clock' = clock + 1
    /\ inflight' = inflight \ {sid}
    /\ UNCHANGED running
    /\ UNCHANGED <<player_registry, connected, LATEST_STATE>>
    /\ IF ~isinstance_dict(data)
       THEN /\ last' = Handled("user:module_event", sid, data, FALSE)
            /\ emitted' = <<>>
            /\ UNCHANGED <<heap, JSON_MESSAGES, synced>>
       ELSE LET mid == get(data, "id")
                value == get(data, "value")
                etype == get(data, "etype")
                payload == get(data, "payload")
                entry == Map([type |-> T_module_event,
                              player |-> registered_name(sid),
                              id |-> mid, etype |-> etype, value |-> value,
                              payload |-> payload, timestamp |-> Ts(clock)])
                modules == get_default(LATEST_STATE, "modules", List(<<>>))
                scan == IF iterable(modules)
                        THEN scan_modules(elements(modules, heap), 1, mid, value)
                        ELSE [idx |-> 0, raised |-> TRUE]
                event_data ==
                    IF payload # Null
                    THEN Map([id |-> mid, etype |-> etype, value |-> value,
                              payload |-> payload])
                    ELSE Map([id |-> mid, etype |-> etype, value |-> value])
            IN /\ JSON_MESSAGES' = log_json_message(entry)
               /\ heap' = IF scan.idx # 0
                          THEN set_value(heap, modules.r, scan.idx, value)
                          ELSE heap
               /\ synced' = IF scan.idx # 0
                             THEN (scan.idx :> value) @@ synced
                             ELSE synced
               /\ last' = Handled("user:module_event", sid, data, scan.raised)
               /\ emitted' =
                      <<emit_json_message(entry, heap)>>
                      \o IF scan.raised THEN <<>>
                         ELSE <<Emit("user:module_event", event_data,
                                     connected \ {sid})>>

\* ---------------------------------------------------------------- players
IsSpace(c) == c \in {" ", "\t", "\n", "\r"}

RECURSIVE lstrip(_)
lstrip(s) == IF s # <<>> /\ IsSpace(s[1]) THEN lstrip(Tail(s)) ELSE s

RECURSIVE rstrip(_)
rstrip(s) ==
    IF s # <<>> /\ IsSpace(s[Len(s)]) THEN rstrip(SubSeq(s, 1, Len(s) - 1))
    ELSE s

\* a faulty trim: leading whitespace only
strip_leading(s) == lstrip(s)

\* str.strip()
strip(s) == rstrip(lstrip(s))

\* x or y
py_or(x, y) == IF truthy(x) THEN x ELSE y

player_update_name(sid, data) ==
    /\ sender(sid)
    /\ clock' = clock + 1
    /\ inflight' = inflight \ {sid}
    /\ UNCHANGED running
    /\ UNCHANGED <<connected, LATEST_STATE, heap, synced>>
    /\ IF ~isinstance_dict(data)
       THEN /\ last' = Handled("player:update_name", sid, data, FALSE)
            /\ emitted' = <<>>
            /\ UNCHANGED <<player_registry, JSON_MESSAGES>>
       ELSE LET name == py_or(get(data, "name"), S_Player)
            IN IF name.t # "str"
               THEN \* .strip: AttributeError
                    /\ last' = Handled("player:update_name", sid, data, TRUE)
                    /\ emitted' = <<>>
                    /\ UNCHANGED <<player_registry, JSON_MESSAGES>>
               ELSE LET new_name == py_or(Str(strip(name.s)), S_Player)
                        entry == Map([type |-> T_update_name,
                                      player |-> new_name,
                                      timestamp |-> Ts(clock)])
                    IN /\ player_registry' =
                              IF sid \in DOMAIN player_registry
                              THEN [player_registry EXCEPT
                                        ![sid].playerName = new_name]
                              ELSE (sid :> [playerName |-> new_name,
                                            connectedAt |-> Ts(clock)])
                                       @@ player_registry
                       /\ JSON_MESSAGES' = log_json_message(entry)
                       /\ last' = Handled("player:update_name", sid, data, FALSE)
                       /\ emitted' = <<emit_json_message(entry, heap)>>

\* a faulty relay: the resolved player name written into the payload
relayed_named(data, player_name) == setitem(data, "player", player_name)

\* the payload of the relay: `data` as it came in
relayed(data, player_name) == data

player_button_press(sid, data) ==
    /\ sender(sid)
    /\ clock' = clock + 1
    /\ inflight' = inflight \ {sid}
    /\ UNCHANGED running
    /\ UNCHANGED <<connected, LATEST_STATE, heap, player_registry, synced>>
    /\ last' = Handled("player:button_press", sid, data, FALSE)
    /\ IF ~isinstance_dict(data)
       THEN /\ emitted' = <<>>
            /\ UNCHANGED JSON_MESSAGES
       ELSE LET player_name == py_or(get(data, "player"), registered_name(sid))
                movement == get_default(data, "movement", S_unknown)
                entry == Map([type |-> T_button_press, player |-> player_name,
                              movement |-> movement, timestamp |-> Ts(clock)])
            IN /\ JSON_MESSAGES' = log_json_message(entry)
               /\ emitted' =
                      <<emit_json_message(entry, heap),
                        Emit("player:button_press", relayed(data, player_name),
                             connected \ {sid})>>

player_interaction(sid, data) ==
    /\ sender(sid)
    /\ clock' = clock + 1
    /\ inflight' = inflight \ {sid}
    /\ UNCHANGED running
    /\ UNCHANGED <<connected, LATEST_STATE, heap, player_registry, synced>>
    /\ last' = Handled("player:interaction", sid, data, FALSE)
    /\ IF ~isinstance_dict(data)
       THEN /\ emitted' = <<>>
            /\ UNCHANGED JSON_MESSAGES
       ELSE LET player_name == py_or(get(data, "player"), registered_name(sid))
                entry == Map([type |-> T_interaction, player |-> player_name,
                              controller |->
                                  get_default(data, "controller", S_controller),
                              controllerId |->
                                  get_default(data, "controllerId", S_unknown),
                              interaction |->
                                  get_default(data, "interaction", S_unknown),
                              value |-> get(data, "value"),
                              timestamp |-> Ts(clock)])
            IN /\ JSON_MESSAGES' = log_json_message(entry)
               /\ emitted' =
                      <<emit_json_message(entry, heap),
                        Emit("player:interaction", relayed(data, player_name),
                             connected \ {sid})>>

\* ---------------------------------------------------------------- inputs
S_bg111 == Str(<<"#", "1", "1", "1">>)

Mod(id, value) == Map([id |-> id, type |-> S_meter, value |-> value])

PushItems ==
    { <<<<"surface", Map([tempo |-> Num(80)])>>>>,
      <<<<"surface", Map([theme |-> Map([bg |-> S_bg111])])>>>>,
      <<<<"surface", Num(5)>>>>,
      <<<<"modules", List(<<Map([id |-> S_A1, type |-> S_meter]),
                            Mod(S_A1, Num(10)), Mod(S_A1, Num(20))>>)>>>>,
      <<<<"modules", List(<<Num(5), Mod(S_A1, Num(10))>>)>>>>,
      <<<<"modules", Num(5)>>>>,
      <<<<"v", Num(200)>>, <<"surface", Map([tempo |-> Num(50)])>>>> }

PushData ==
    { <<Map([state |-> Map(FromItems(it))]), it>> : it \in PushItems }
        \cup { <<d, <<>>>> : d \in {Null, Num(5), Map([state |-> Num(5)])} }

S_change == Str(<<"c", "h", "a", "n", "g", "e">>)
S_Z9 == Str(<<"Z", "9">>)

EventData ==
    { Null,
      Map([id |-> S_A1, etype |-> S_change, value |-> Num(90)]),
      Map([id |-> S_A1, etype |-> S_change, value |-> Null]),
      Map([id |-> S_Z9, etype |-> S_change, value |-> Num(90)]),
      Map([id |-> S_A1, etype |-> S_change, value |-> Num(70),
           payload |-> EmptyMap]),
      Map([etype |-> S_change, value |-> Num(90), payload |-> Null]) }

NameData ==
    { Null,
      EmptyMap,
      Map([name |-> Str(<<>>)]),
      Map([name |-> Str(<<" ", "A", "n", "n", " ">>)]),
      Map([name |-> Str(<<" ", " ">>)]),
      Map([name |-> Num(5)]) }

S_up == Str(<<"u", "p">>)
S_Bob == Str(<<"B", "o", "b">>)

ButtonData == { Null, S_up, Map([movement |-> S_up]) }

InteractionData ==
    { Null, Num(5), Map([player |-> S_Bob, controllerId |-> S_A1, value |-> Num(50)]) }

\* ---------------------------------------------------------------- Next
\* the events handled in one run
Tick == clock < MaxClock

Next ==
    \/ \E sid \in Sessions : Tick /\ on_connect(sid)
    \/ \E sid \in Sessions : Tick /\ on_disconnect(sid)
    \/ \E sid \in Sessions, p \in PushData :
           Tick /\ wizard_push_state(sid, p[1], p[2])
    \/ \E sid \in Sessions, d \in EventData : Tick /\ user_module_event(sid, d)
    \/ \E sid \in Sessions, d \in NameData : Tick /\ player_update_name(sid, d)
    \/ \E sid \in Sessions, d \in ButtonData : Tick /\ player_button_press(sid, d)
    \/ \E sid \in Sessions, d \in InteractionData :
           Tick /\ player_interaction(sid, d)

Spec == Init /\ [][Next]_vars

\* one session that keeps pressing a button: a run long enough for the log
\* to fill up and evict
TickLog == clock < MaxLogClock

NextLog ==
    \/ \E sid \in Sessions : TickLog /\ connected = {} /\ on_connect(sid)
    \/ \E sid \in Sessions :
           TickLog /\ player_button_press(sid, Map([movement |-> S_up]))

SpecLog == Init /\ [][NextLog]_vars

\* ---------------------------------------------------------------- threads
\* wizard_push_state on a thread of its own, as the transport runs handlers
\* when no cooperative loop is installed: the handler up to the merge loop,
\* one pass of the loop, and the emit after it are steps that another
\* handler's steps can come between (the program takes no lock)
wizard_push_state_begin(sid, data, items) ==
    /\ sender(sid)
    /\ sid \notin DOMAIN running.threads
    /\ Len(running.batch) < MaxThreads \/ running.threads = <<>>
    /\ state_is_dict(data)
    /\ LET held == by_reference(items, Len(heap) + 1)
           entry == Map([type |-> T_push_state,
                         state |-> Map(FromItems(held)),
                         timestamp |-> Ts(clock)])
       IN /\ JSON_MESSAGES' = log_json_message(entry)
          /\ emitted' = <<emit_json_message(entry, heap)>>
          /\ running' =
                 [threads |-> (sid :> [items |-> held]) @@ running.threads,
                  base |-> IF running.threads = <<>>
                           THEN LATEST_STATE ELSE running.base,
                  batch |-> IF running.threads = <<>>
                            THEN <<held>> ELSE Append(running.batch, held)]
    /\ last' = Handled("wizard:push_state", sid, data, FALSE)
    /\ clock' = clock + 1
    /\ UNCHANGED <<LATEST_STATE, heap, player_registry, connected, synced,
                   inflight>>

\* the threads other than that of session sid
others(sid) ==
    [s \in DOMAIN running.threads \ {sid} |-> running.threads[s]]

\* one pass of `for k, v in state.items()`
wizard_push_state_loop(sid) ==
    /\ sid \in DOMAIN running.threads
    /\ running.threads[sid].items # <<>>
    /\ LET items == running.threads[sid].items
           merged == merge(LATEST_STATE, <<items[1]>>)
       IN /\ LATEST_STATE' = merged.doc
          /\ running' =
                 [running EXCEPT !.threads =
                     IF merged.raised THEN others(sid)
                     ELSE (sid :> [items |-> Tail(items)]) @@ others(sid)]
          /\ last' = [last EXCEPT !.raised = merged.raised]
    /\ emitted' = <<>>
    /\ UNCHANGED <<heap, JSON_MESSAGES, player_registry, connected, clock,
                   synced, inflight>>

\* emit("state", LATEST_STATE, broadcast=True, include_self=False)
wizard_push_state_emit(sid) ==
    /\ sid \in DOMAIN running.threads
    /\ running.threads[sid].items = <<>>
    /\ emitted' = <<Emit("state", Serialize(LATEST_STATE, heap),
                         connected \ {sid})>>
    /\ running' = [running EXCEPT !.threads = others(sid)]
    /\ UNCHANGED <<LATEST_STATE, heap, JSON_MESSAGES, player_registry,
                   connected, clock, last, synced, inflight>>

ConcItems ==
    { <<<<"v", Num(200)>>, <<"surface", Map([tempo |-> Num(50)])>>>>,
      <<<<"v", Num(300)>>, <<"surface", Map([tempo |-> Num(80)])>>>> }

ConcData == { <<Map([state |-> Map(FromItems(it))]), it>> : it \in ConcItems }

NextConc ==
    \/ \E sid \in Sessions : Tick /\ on_connect(sid)
    \/ \E sid \in Sessions, p \in ConcData :
           Tick /\ wizard_push_state_begin(sid, p[1], p[2])
    \/ \E sid \in Sessions : wizard_push_state_loop(sid)
    \/ \E sid \in Sessions : wizard_push_state_emit(sid)

SpecConc == Init /\ [][NextConc]_vars

\* ---------------------------------------------------------------- vocabulary
\* the canonical document as a client would read it
Doc == Serialize(LATEST_STATE, heap)

\* the emit calls of the last handler that deliver `event` to session s
received(s, event) ==
    {i \in DOMAIN emitted : emitted[i].event = event /\ s \in emitted[i].to}

\* the last event was a wizard:push_state whose `state` is a map
is_push ==
    /\ last.op = "wizard:push_state"
    /\ isinstance_dict(last.data)
    /\ isinstance_dict(get(last.data, "state"))

pushed == last.data.m["state"]

\* the last event was a user:module_event whose payload is a map
is_event == last.op = "user:module_event" /\ isinstance_dict(last.data)

\* the merge of section 4.1, key by key, of partial `state` into document `pre`
fully_merged(pre, state) ==
    Map([k \in DOMAIN pre.m \cup DOMAIN state.m |->
            IF k \notin DOMAIN state.m THEN pre.m[k]
            ELSE IF /\ k = "surface"
                    /\ isinstance_dict(state.m[k])
                    /\ isinstance_dict(pre.m[k])
            THEN Map([j \in DOMAIN pre.m[k].m \cup DOMAIN state.m[k].m |->
                         IF j \in DOMAIN state.m[k].m
                         THEN state.m[k].m[j] ELSE pre.m[k].m[j]])
            ELSE state.m[k]])

\* the modules of list ms that have a `value` field and whose id is `id`
matching(ms, id) ==
    {j \in DOMAIN ms : /\ isinstance_dict(ms[j])
                       /\ "value" \in DOMAIN ms[j].m
                       /\ get(ms[j], "id") = id}

Min(S) == CHOOSE x \in S : \A y \in S : x <= y

Max(S) == CHOOSE x \in S : \A y \in S : x >= y

\* s without its leading and trailing whitespace
NonSpace(s) == {i \in DOMAIN s : ~IsSpace(s[i])}

Trimmed(s) ==
    IF NonSpace(s) = {} THEN <<>>
    ELSE SubSeq(s, Min(NonSpace(s)), Max(NonSpace(s)))

\* the last event was a player:update_name with a map payload whose `name`,
\* when present, is a string
is_update_name ==
    /\ last.op = "player:update_name"
    /\ isinstance_dict(last.data)
    /\ get(last.data, "name").t \in {"null", "str"}

pre_modules == last.pre.m["modules"]

\* ---------------------------------------------------------------- claims

\* C1: after a wizard:push_state with a map `state`, the sender receives no
\* `state` event and every other connected session receives exactly one, whose
\* payload is the canonical document with the partial fully merged into it.
C1_BroadcastExclusion ==
    is_push =>
        /\ received(last.sid, "state") = {}
        /\ \A s \in connected \ {last.sid} :
              /\ Cardinality(received(s, "state")) = 1
              /\ \A i \in received(s, "state") :
                    /\ emitted[i].data = Doc
                    /\ emitted[i].data = fully_merged(last.pre, pushed)

\* C2: a connect sends exactly one event, a `state` to the new session only,
\* carrying the canonical document as it stands (the default document when
\* nothing has been logged, that is before any mutation).
C2_ConnectSnapshot ==
    last.op = "connect" =>
        /\ Len(emitted) = 1
        /\ emitted[1].event = "state"
        /\ emitted[1].to = {last.sid}
        /\ emitted[1].data = Doc
        /\ emitted[1].data = last.pre
        /\ JSON_MESSAGES = <<>> => emitted[1].data = DefaultDocument

\* a session connects next to a live one, after the document was changed
C2_Witness ==
    /\ last.op = "connect"
    /\ Cardinality(connected) >= 2
    /\ Doc # DefaultDocument
    /\ emitted[1].data = Doc

\* C3: after a wizard:push_state with a map `state`, no top-level key is lost,
\* every top-level key that is not a key of `state` keeps its value, and when
\* state.surface is a map every stored surface key that is not a key of
\* state.surface keeps its value.
C3_UnsuppliedKeysKept ==
    /\ DOMAIN DefaultDocument.m \subseteq DOMAIN Doc.m
    /\ is_push =>
          /\ DOMAIN last.pre.m \subseteq DOMAIN Doc.m
          /\ \A k \in DOMAIN last.pre.m \ DOMAIN pushed.m :
                Doc.m[k] = last.pre.m[k]
          /\ ("surface" \in DOMAIN pushed.m
                /\ isinstance_dict(pushed.m["surface"])
                /\ isinstance_dict(last.pre.m["surface"])) =>
                \A j \in DOMAIN last.pre.m["surface"].m
                            \ DOMAIN pushed.m["surface"].m :
                    /\ isinstance_dict(Doc.m["surface"])
                    /\ j \in DOMAIN Doc.m["surface"].m
                    /\ Doc.m["surface"].m[j] = last.pre.m["surface"].m[j]

\* a push of {surface: {tempo}} has changed tempo and kept theme, cols, rows
C3_Witness ==
    /\ is_push
    /\ ~last.raised
    /\ DOMAIN pushed.m = {"surface"}
    /\ isinstance_dict(pushed.m["surface"])
    /\ DOMAIN pushed.m["surface"].m = {"tempo"}
    /\ Doc.m["surface"].m["tempo"] # last.pre.m["surface"].m["tempo"]
    /\ Doc.m["surface"].m["theme"] = DefaultTheme

\* C4: a pushed `surface` that is not a map, or `modules` that is not a
\* sequence, leaves the stored value unchanged, so that `surface` is always a
\* map and `modules` always a sequence.
C4_MalformedShapeIgnored ==
    /\ isinstance_dict(Doc.m["surface"])
    /\ Doc.m["modules"].t = "list"
    /\ is_push =>
          /\ ("surface" \in DOMAIN pushed.m
                /\ ~isinstance_dict(pushed.m["surface"])) =>
                Doc.m["surface"] = last.pre.m["surface"]
          /\ ("modules" \in DOMAIN pushed.m
                /\ pushed.m["modules"].t # "list") =>
                Doc.m["modules"] = last.pre.m["modules"]

\* C5: an entry of the message log reads the same after every step, for as
\* long as it is in the log (an append evicts at most the oldest entry).
C5_LogEntryImmutable ==
    [][LET evicted == IF /\ Len(JSON_MESSAGES') <= Len(JSON_MESSAGES)
                         /\ JSON_MESSAGES' # JSON_MESSAGES
                      THEN Len(JSON_MESSAGES) + 1 - Len(JSON_MESSAGES')
                      ELSE 0
       IN \A i \in DOMAIN JSON_MESSAGES :
             i > evicted =>
                 Serialize(JSON_MESSAGES'[i - evicted], heap')
                     = Serialize(JSON_MESSAGES[i], heap)]_vars

\* C6: no handler ends in an uncaught exception, whatever the payload.
C6_NoFatalErrors == ~last.raised

\* C7: after a user:module_event with a map payload, the sender receives no
\* `user:module_event` and every other connected session receives exactly one,
\* with exactly the keys id, etype, value of the inbound message and the key
\* payload iff the inbound payload is non-null.
C7_ModuleEventRelay ==
    is_event =>
        /\ received(last.sid, "user:module_event") = {}
        /\ \A s \in connected \ {last.sid} :
              /\ Cardinality(received(s, "user:module_event")) = 1
              /\ \A i \in received(s, "user:module_event") :
                    LET d == emitted[i].data
                    IN /\ isinstance_dict(d)
                       /\ DOMAIN d.m =
                              {"id", "etype", "value"}
                                  \cup IF get(last.data, "payload") # Null
                                       THEN {"payload"} ELSE {}
                       /\ \A k \in DOMAIN d.m : d.m[k] = get(last.data, k)

\* C8: a user:module_event with id i and non-null value v sets the `value` of
\* the first module with id i that has a `value` field, and changes nothing
\* else of the document.
C8_FirstMatchOnly ==
    (/\ is_event
     /\ get(last.data, "value") # Null
     /\ pre_modules.t = "list"
     /\ matching(pre_modules.l, get(last.data, "id")) # {}) =>
        LET j == Min(matching(pre_modules.l, get(last.data, "id")))
        IN Doc = setitem(last.pre, "modules",
                         List([pre_modules.l EXCEPT ![j] =
                                  setitem(@, "value", get(last.data, "value"))]))

\* C9: a user:module_event with a null value, or whose id matches no module
\* that has a `value` field, leaves the document unchanged and is no error.
C9_UnresolvableIsNoOp ==
    (/\ is_event
     /\ \/ get(last.data, "value") = Null
        \/ pre_modules.t # "list"
        \/ matching(pre_modules.l, get(last.data, "id")) = {}) =>
        /\ Doc = last.pre
        /\ ~last.raised

\* C10: the snapshot a connecting session receives carries, for every module a
\* user:module_event has stored a value in since `modules` was last assigned,
\* the value stored last.
C10_LateJoinersSync ==
    last.op = "connect" =>
        /\ received(last.sid, "state") # {}
        /\ \A i \in received(last.sid, "state") :
              \A j \in DOMAIN synced :
                  /\ emitted[i].data.m["modules"].t = "list"
                  /\ j \in DOMAIN emitted[i].data.m["modules"].l
                  /\ get(emitted[i].data.m["modules"].l[j], "value") = synced[j]

\* a session connects after a module event has changed a module's value
C10_Witness ==
    /\ last.op = "connect"
    /\ \E j \in DOMAIN synced :
          /\ j \in DOMAIN DefaultModules
          /\ synced[j] # get(DefaultModules[j], "value")
          /\ get(emitted[1].data.m["modules"].l[j], "value") = synced[j]

\* C11: the log never holds more than 100 entries; a handler leaves it alone or
\* appends one entry at the end, the earlier entries keeping their order, and
\* the oldest entry is dropped exactly when the log was full; the read
\* endpoint returns the entries of the log, oldest first.
C11_LogFifo ==
    [][LET q == JSON_MESSAGES
           q2 == JSON_MESSAGES'
           dropped == IF Len(q) = MAXLEN THEN 1 ELSE 0
       IN /\ Len(q2) <= MAXLEN
          /\ \/ q2 = q
             \/ /\ Len(q2) = Len(q) + 1 - dropped
                /\ q2[Len(q2)].m["timestamp"] = Ts(clock)
                /\ \A i \in 1..(Len(q2) - 1) : q2[i] = q[i + dropped]
          /\ Len(get_json_messages') = Len(q2)
          /\ \A i \in DOMAIN q2 :
                get_json_messages'[i].m["timestamp"] = q2[i].m["timestamp"]
      ]_vars

\* the log is full and its first entry has been evicted
C11_Witness ==
    /\ Len(JSON_MESSAGES) = MAXLEN
    /\ JSON_MESSAGES[1].m["timestamp"] = Ts(2)
    /\ JSON_MESSAGES[MAXLEN].m["timestamp"] = Ts(MAXLEN + 1)

\* C12: a handler that appends an entry to the log emits exactly one
\* json_message, carrying that entry, to every connected session (the sender
\* included); a handler that appends nothing emits no json_message.
C12_JsonMessagePerAppend ==
    [][LET jm == {i \in DOMAIN emitted' : emitted'[i].event = "json_message"}
       IN IF JSON_MESSAGES' # JSON_MESSAGES
          THEN /\ Cardinality(jm) = 1
               /\ \A i \in jm :
                     /\ emitted'[i].to = connected'
                     /\ emitted'[i].data =
                            Serialize(JSON_MESSAGES'[Len(JSON_MESSAGES')], heap')
          ELSE jm = {}
      ]_vars

\* a logged message whose json_message reaches the sender and another session
C12_Witness ==
    /\ JSON_MESSAGES # <<>>
    /\ JSON_MESSAGES[Len(JSON_MESSAGES)].m["timestamp"] = Ts(clock - 1)
    /\ \E i \in DOMAIN emitted :
          /\ emitted[i].event = "json_message"
          /\ last.sid \in emitted[i].to
          /\ Cardinality(emitted[i].to) >= 2

\* the last event was a malformed message: a wizard:push_state whose `state`
\* is not a map, or another message whose payload is not a map
malformed ==
    \/ /\ last.op = "wizard:push_state"
       /\ \/ ~isinstance_dict(last.data)
          \/ ~isinstance_dict(get(last.data, "state"))
    \/ /\ last.op \in {"player:update_name", "player:button_press",
                       "player:interaction", "user:module_event"}
       /\ ~isinstance_dict(last.data)

\* C13: a malformed message changes neither the canonical document nor the
\* registry nor the log, and no event is sent to any session.
C13_MalformedIgnored ==
    [][malformed' =>
          /\ UNCHANGED <<LATEST_STATE, heap, JSON_MESSAGES, player_registry>>
          /\ emitted' = <<>>
      ]_vars

\* a wizard:push_state whose `state` is a number has just been handled, with
\* another session connected
C13_Witness ==
    /\ last.op = "wizard:push_state"
    /\ isinstance_dict(last.data)
    /\ get(last.data, "state") = Num(5)
    /\ connected \ {last.sid} # {}
    /\ JSON_MESSAGES # <<>>

C15_DisconnectRemoves ==
    [][/\ last'.op = "disconnect" =>
             /\ player_registry' =
                    [s \in DOMAIN player_registry \ {last'.sid} |->
                        player_registry[s]]
             /\ emitted' = <<>>
             /\ UNCHANGED <<LATEST_STATE, heap, JSON_MESSAGES>>
       /\ DOMAIN player_registry' \subseteq connected'
      ]_vars

\* C16: a wizard:push_state that repeats the message handled just before it
\* leaves the canonical document as that first one left it.
C16_MergeIdempotent ==
    (is_push /\ last.again) => Doc = last.pre

\* the same partial {surface: {tempo: 0.8}} pushed twice in a row, onto a
\* document it changed the first time
C16_Witness ==
    /\ is_push
    /\ last.again
    /\ pushed = Map([surface |-> Map([tempo |-> Num(80)])])
    /\ Doc.m["surface"].m["tempo"] = Num(80)
    /\ Doc # DefaultDocument

\* the last event was a wizard:push_state whose state.surface is a map that
\* supplies `theme`
supplies_theme ==
    /\ is_push
    /\ isinstance_dict(get(pushed, "surface"))
    /\ "theme" \in DOMAIN pushed.m["surface"].m

\* C17: after a wizard:push_state that supplies surface.theme the stored theme
\* is exactly the supplied theme, and every surface key the message does not
\* supply is as it was.
C17_SurfaceOneLevel ==
    supplies_theme =>
        /\ isinstance_dict(Doc.m["surface"])
        /\ get(Doc.m["surface"], "theme") = pushed.m["surface"].m["theme"]
        /\ isinstance_dict(last.pre.m["surface"]) =>
               \A k \in DOMAIN last.pre.m["surface"].m
                        \ DOMAIN pushed.m["surface"].m :
                   get(Doc.m["surface"], k) = last.pre.m["surface"].m[k]

\* the document after the handlers of the partials ps[o[1]], ps[o[2]], ...
\* have run one after the other, each to its end, from document doc
RECURSIVE in_turn(_, _, _)
in_turn(doc, ps, o) ==
    IF o = <<>> THEN doc
    ELSE in_turn(merge(doc, ps[o[1]]).doc, ps, Tail(o))

\* the orders in which the partials of the index set S can be taken
Orders(S) ==
    {o \in [1..Cardinality(S) -> S] : \A i, j \in DOMAIN o : o[i] = o[j] => i = j}

\* the documents that handling the partials of S one after the other leaves
Outcomes(S) ==
    {Serialize(in_turn(running.base, running.batch, o), heap) : o \in Orders(S)}

\* C18: when wizard:push_state handlers run concurrently, the canonical
\* document, once they have all ended, is the one that handling their
\* messages one after the other in some order leaves; and every `state` event
\* (the snapshot of a connect included) carries a document that handling some
\* of those messages, each completely, one after the other leaves.
C18_MergeAtomic ==
    /\ running.threads = <<>> => Doc \in Outcomes(DOMAIN running.batch)
    /\ \A i \in DOMAIN emitted :
          emitted[i].event = "state" =>
              \E S \in SUBSET DOMAIN running.batch :
                  emitted[i].data \in Outcomes(S)

\* the last event was a player:button_press or a player:interaction with a
\* map payload
is_relayed ==
    /\ last.op \in {"player:button_press", "player:interaction"}
    /\ isinstance_dict(last.data)

\* C19: a player:button_press or player:interaction with a map payload sends
\* one event of the same name, carrying the payload as it came in, to every
\* connected session but the sender, and none to the sender; the canonical
\* document and the registry stay as they were.
C19_RelayUnmodified ==
    [][is_relayed' =>
          LET relay == {i \in DOMAIN emitted' : emitted'[i].event = last'.op}
          IN /\ Cardinality(relay) = 1
             /\ \A i \in relay :
                   /\ emitted'[i].data = last'.data
                   /\ emitted'[i].to = connected' \ {last'.sid}
             /\ UNCHANGED <<LATEST_STATE, heap, player_registry>>
      ]_vars

\* a button press without `player` from a renamed session is relayed to
\* another session
C19_Witness ==
    /\ last.op = "player:button_press"
    /\ isinstance_dict(last.data)
    /\ "player" \notin DOMAIN last.data.m
    /\ last.sid \in DOMAIN player_registry
    /\ player_registry[last.sid].playerName # S_Player
    /\ \E i \in DOMAIN emitted :
          /\ emitted[i].event = "player:button_press"
          /\ emitted[i].to # {}
          /\ emitted[i].data = last.data

\* C20: a connect for a session identifier that already has a registry entry
\* fails, and the registry stays as it was.
C20_ConnectCollisionFails ==
    [][(last'.op = "connect" /\ last'.sid \in DOMAIN player_registry) =>
          /\ last'.raised
          /\ player_registry' = player_registry
      ]_vars

====
